---- MODULE Spec2Model ----
(***************************************************************************)
(* Model of the concurrent ingestion pipeline of pyrovski/phash            *)
(* (src/phash.go): PHasher.pipeline and the goroutines it launches,        *)
(* getImages, processImages and the three sinks storeHashes, lookupHashes  *)
(* and printHashes.                                                        *)
(*                                                                         *)
(* Goroutines are processes with a program counter; the two unbuffered     *)
(* channels c and dbC are rendezvous between a sender and a receiver; the  *)
(* three sync.WaitGroups are integer counters.  The store is a table of    *)
(* rows with one write lock, as SQLite serialises writers.                 *)
(***************************************************************************)
EXTENDS Integers, Sequences, FiniteSets, TLC

\* ---------------------------------------------------------------- bounds
NumPaths  == 2      \* positional path arguments of one run
MaxImages == 3      \* images of all path arguments together
MaxProcs  == 2      \* largest -procs value explored
MaxFaults == 1      \* store errors the environment injects in one run
DBTimeout == 1      \* -dbtimeout, in clock ticks

\* One directory can hold all the images; the clock is explored one tick
\* past the timeout.
MaxFiles == MaxImages
MaxTime  == DBTimeout + 1

\* ------------------------------------------------------ program constants
query == 0
store == 1
show  == 2
batch == 100

Modes == {query, store, show}
Paths == 1..NumPaths
Dirs  == 1..NumPaths
Procs == 1..MaxProcs

\* Commit tasks one run can start: one per full batch, the one started by
\* the first image, and the final one (phash.go:192-203).
Tasks == 1..((MaxImages \div batch) + 2)

\* An image descriptor (*image) is identified by the scanner that created
\* it and its position in that scanner's directory listing.
Images == Paths \X (1..MaxFiles)
Nil    == <<0, 0>>

VARIABLES
    m,          \* mode of the run
    paths,      \* paths[p]: directory named by the p-th argument
    nfiles,     \* nfiles[d]: matching, decodable images in directory d
    hashProcs,  \* h.HashProcs
    spc,        \* getImages(p): "list", "emit", "done"
    todo,       \* getImages(p): images still to send
    wpc,        \* processImages(w): "off", "recv", "send", "done"
    wimg,       \* processImages(w): image held
    cClosed,    \* close(c) executed
    dbCClosed,  \* close(dbC) executed
    rg, pg, dg, \* WaitGroup counters
    opc,        \* pipeline: "waitR", "waitP", "waitD", "woken", "returned"
    halt,       \* "none", or how the process died: "sendOnClosed",
                \* "negativeWaitGroup", "nilTx", "closedMat" (runtime
                \* panics and crashes) or "fatal" (log.Fatal)
    sinkpc,     \* sink goroutine: "prepare", "recv", "done"
    count,      \* storeHashes: count
    imgs,       \* storeHashes: imgs
    tasks,      \* one record per `go retry(...)`
    lock,       \* task holding the store's write lock, 0 if none
    rows,       \* key_hashes: rows[r] = number of committed copies of r
    hashClosed, \* images whose hash Mat has been Close()d
    now,        \* time.Now()
    faults,     \* store errors injected so far
    lookup,     \* lookupHash(img): "none", "running", "printed", "failed"
    out,        \* lines printed on stdout, in order
    argv,       \* main: the command line (os.Args[1:])
    mpc,        \* main: "args", "modes", "db", "query", "store", "show",
                \* "exit", "fatal"; "pipeline" while a run is in progress
    runs,       \* modes of the pipeline runs launched so far, in order
    listing,    \* getImages: the entries of the directory, in ReadDir order
    keyFile,    \* getImages: <<>> if h.KeyFile is "", else the key file's
                \* content, or <<"unreadable">>
    gpc,        \* getImages: "list", "key", "loop", "done"
    visited,    \* getImages: entries the loop has visited
    emitted     \* getImages: descriptors sent on c, in order

vars == <<m, paths, nfiles, hashProcs, spc, todo, wpc, wimg, cClosed,
          dbCClosed, rg, pg, dg, opc, halt, sinkpc, count, imgs, tasks,
          lock, rows, hashClosed, now, faults, lookup, out, argv, mpc,
          runs, listing, keyFile, gpc, visited, emitted>>

cfgVars   == <<m, paths, nfiles, hashProcs>>
scanVars  == <<spc, todo>>
workVars  == <<wpc, wimg>>
storeVars == <<count, imgs, tasks, lock, rows, hashClosed>>
mainVars  == <<argv, mpc, runs>>
dirVars   == <<listing, keyFile, gpc, visited, emitted>>

\* ------------------------------------------------------------- the store
\* The 1x32-byte block mean hash of frame f of directory d (phash.go:120).
\* The pictures have hashes that differ in the second word by frame and in
\* the last byte by directory.
HashBytes(d, f) ==
    <<0, 0, 0, 1,  0, 0, f, 0,  0, 0, 0, 0,  0, 0, 0, 0,
      0, 0, 0, 0,  0, 0, 0, 0,  0, 0, 0, 0,  0, 0, 0, d>>

\* BlockMeanHash.Compute followed by Mat.ToBytes: the hash is a function of
\* the picture.
Compute(img) == HashBytes(paths[img[1]], img[2])

\* binary.Read(buf, binary.BigEndian, &result[i]) for the i-th word: four
\* bytes, most significant first; when fewer than four bytes are left the
\* read fails, its error is dropped and the word stays zero.
BigEndianWord(h, i) ==
    IF Len(h) >= 4 * i
    THEN ((h[4 * i - 3] * 256 + h[4 * i - 2]) * 256 + h[4 * i - 1]) * 256
         + h[4 * i]
    ELSE 0

\* unpackHash: the first sixteen bytes as four words; the rest of the
\* hash is not read.
unpackHash(h) ==
    <<BigEndianWord(h, 1), BigEndianWord(h, 2), BigEndianWord(h, 3),
      BigEndianWord(h, 4)>>

\* The words unpackHash can produce for frame f of directory d: those of
\* the picture's hash and those of an empty buffer.
WordsOf(d, f) == {unpackHash(HashBytes(d, f)), unpackHash(<<>>)}

\* The rows of key_hashes a run can insert:
\* (fullpath, frame, <<h1, h2, h3, h4>>).
AllRows ==
    UNION {{<<d, f, w>> : w \in WordsOf(d, f)} : d \in Dirs, f \in 1..MaxFiles}

\* The row commitFrames inserts for img when it reads hash bytes hv
\* (phash.go:157,160).
RowOf(img, hv) == <<paths[img[1]], img[2], unpackHash(hv)>>

\* The process runs: no panic, no log.Fatal, main has not returned.
Running == halt = "none" /\ opc # "returned"


EmptyStore == [r \in AllRows |-> 0]

\* The table left by an earlier store run over directory 1.
PriorStore ==
    [r \in AllRows |->
        IF r[1] = 1 /\ r[3] = unpackHash(HashBytes(1, r[2])) THEN 1 ELSE 0]

\* A lookup that compares the first word only.
Matches_FirstWord(un) ==
    {<<r[1], r[2], rows[r]>> :
        r \in {x \in AllRows : x[3][1] = un[1] /\ rows[x] > 0}}

\* The (fullpath, frame) pairs lookupHashesQuery selects for the words un
\* (`where h1 = ? and h2 = ? and h3 = ? and h4 = ?`, phash.go:34), one per
\* stored copy.
Matches(un) ==
    {<<r[1], r[2], rows[r]>> :
        r \in {x \in AllRows : /\ x[3][1] = un[1] /\ x[3][2] = un[2]
                                /\ x[3][3] = un[3] /\ x[3][4] = un[4]
                                /\ rows[x] > 0}}

\* Number of images in the directories of the first n path arguments.
RECURSIVE TotalImages(_, _, _)
TotalImages(ps, nf, n) ==
    IF n = 0 THEN 0 ELSE nf[ps[n]] + TotalImages(ps, nf, n - 1)

\* ------------------------------------------------------------------ main
\* How a boolean flag appears on the command line: not at all, as -f or
\* -f=true, or as -f=false.
FlagForms == {"absent", "true", "false"}

\* How -db appears: not at all, with an empty value, with a file name.
DBForms == {"absent", "empty", "file"}

\* The command lines: the three mode flags, -db, and the number of
\* positional path arguments.
CommandLines ==
    [query : FlagForms, store : FlagForms, show : FlagForms, db : DBForms,
     npos : 0..NumPaths]

\* The value flag.Parse leaves in a boolean flag variable declared with
\* default d (part_000:37-40).
BoolFlag(f, d) == IF f = "absent" THEN d ELSE f = "true"

\* The parsed flags: -query and -store default to false, -show to true,
\* -db to "" (part_000:34,37-39).
FlagQuery == BoolFlag(argv.query, FALSE)
FlagStore == BoolFlag(argv.store, FALSE)
FlagShow  == BoolFlag(argv.show, TRUE)
DBFile    == IF argv.db = "file" THEN "file" ELSE ""

\* len(os.Args[1:]): every flag and every path is an argument
\* (part_000:29); -db and its value are two.
NumArgs ==
    (IF argv.query = "absent" THEN 0 ELSE 1)
  + (IF argv.store = "absent" THEN 0 ELSE 1)
  + (IF argv.show = "absent" THEN 0 ELSE 1)
  + (IF argv.db = "absent" THEN 0 ELSE 2)
  + argv.npos

bool2int(b) == IF b THEN 1 ELSE 0

\* A mode test that lets a command line with no mode pass.
ModesOK_AtMostOne(q, s, sh) == bool2int(s) + bool2int(q) + bool2int(sh) <= 1

\* The mode test (part_000:44).
ModesOK(q, s, sh) == bool2int(s) + bool2int(q) + bool2int(sh) = 1

\* The command line main was given when it launched a run in mode md.
CommandLineOf(md) ==
    [query |-> IF md = query THEN "true" ELSE "absent",
     store |-> IF md = store THEN "true" ELSE "absent",
     show  |-> IF md = show THEN "absent" ELSE "false",
     db    |-> IF md = show THEN "absent" ELSE "file",
     npos  |-> NumPaths]

\* The pipeline state before main has launched anything.
NotLaunched ==
    /\ m = show
    /\ paths = [p \in Paths |-> 1]
    /\ nfiles = [d \in Dirs |-> 1]
    /\ hashProcs = 1
    /\ spc = [p \in Paths |-> "off"]
    /\ todo = [p \in Paths |-> 0]
    /\ wpc = [w \in Procs |-> "off"]
    /\ wimg = [w \in Procs |-> Nil]
    /\ cClosed = FALSE
    /\ dbCClosed = FALSE
    /\ rg = 0
    /\ pg = 0
    /\ dg = 0
    /\ opc = "off"
    /\ halt = "none"
    /\ sinkpc = "off"
    /\ count = 0
    /\ imgs = <<>>
    /\ tasks = <<>>
    /\ lock = 0
    /\ rows = EmptyStore
    /\ hashClosed = {}
    /\ now = 0
    /\ faults = 0
    /\ lookup = [i \in Images |-> "none"]
    /\ out = <<>>

\* No directory is being listed step by step.
NoListing ==
    /\ listing = <<>>
    /\ keyFile = <<>>
    /\ gpc = "done"
    /\ visited = 0
    /\ emitted = <<>>

pipeVars == <<cfgVars, scanVars, workVars, cClosed, dbCClosed, rg, pg, dg,
              opc, halt, sinkpc, storeVars, now, faults, lookup, out>>

\* main is entered with some command line.
InitMain ==
    /\ argv \in CommandLines
    /\ mpc = "args"
    /\ runs = <<>>
    /\ NotLaunched
    /\ NoListing

\* The argument test, made on os.Args[1:] before the flags are parsed
\* (part_000:29-32).
MainArgs ==
    /\ mpc = "args"
    /\ mpc' = IF NumArgs < 1 THEN "fatal" ELSE "modes"
    /\ UNCHANGED <<argv, runs, dirVars, pipeVars>>

\* flag.Parse and the mode test (part_000:41-46).
MainModes ==
    /\ mpc = "modes"
    /\ mpc' = IF ModesOK(FlagQuery, FlagStore, FlagShow) THEN "db" ELSE "fatal"
    /\ UNCHANGED <<argv, runs, dirVars, pipeVars>>

\* The -db test (part_000:48-50).
MainDB ==
    /\ mpc = "db"
    /\ mpc' = IF (FlagQuery \/ FlagStore) /\ DBFile = "" THEN "fatal"
              ELSE "query"
    /\ UNCHANGED <<argv, runs, dirVars, pipeVars>>

\* `if query { hasher.LookupHashesInDirs(args) }` (part_000:53-55): the
\* call runs one pipeline with the query sink (phash.go:265,292-294).
MainQuery ==
    /\ mpc = "query"
    /\ mpc' = "store"
    /\ runs' = IF FlagQuery THEN Append(runs, query) ELSE runs
    /\ UNCHANGED <<argv, dirVars, pipeVars>>

\* `if store { hasher.StoreHashesFromDirs(args) }` (part_000:56-58).
MainStore ==
    /\ mpc = "store"
    /\ mpc' = "show"
    /\ runs' = IF FlagStore THEN Append(runs, store) ELSE runs
    /\ UNCHANGED <<argv, dirVars, pipeVars>>

\* `if show { hasher.PrintHashesInDirs(args) }` (part_000:59-61), then main
\* returns.
MainShow ==
    /\ mpc = "show"
    /\ mpc' = "exit"
    /\ runs' = IF FlagShow THEN Append(runs, show) ELSE runs
    /\ UNCHANGED <<argv, dirVars, pipeVars>>

NextMain ==
    \/ MainArgs
    \/ MainModes
    \/ MainDB
    \/ MainQuery
    \/ MainStore
    \/ MainShow

SpecMain == InitMain /\ [][NextMain]_vars

\* --------------------------------------------------------------- Init
\* The state after pipeline has launched every goroutine (phash.go:276-300)
\* and reached rg.Wait(), with h.HashProcs positive (phash.go:281-283).
\* The path arguments name one directory or
\* pairwise different directories; a directory that yields no image is a
\* scanner that returns at once (ScanList); a directory no argument names
\* is left at one image, and the directories are numbered largest first
\* (the scanners run the same code concurrently).
Init ==
    /\ m \in Modes
    /\ paths \in {[p \in Paths |-> 1], [p \in Paths |-> p]}
    /\ nfiles \in [Dirs -> 1..MaxFiles]
    /\ \A d \in Dirs : (\A p \in Paths : paths[p] # d) => nfiles[d] = 1
    /\ \A d, e \in Dirs : d <= e => nfiles[d] >= nfiles[e]
    /\ TotalImages(paths, nfiles, NumPaths) <= MaxImages
    /\ hashProcs \in Procs
    /\ spc = [p \in Paths |-> "list"]
    /\ todo = [p \in Paths |-> nfiles[paths[p]]]
    /\ wpc = [w \in Procs |-> IF w <= hashProcs THEN "recv" ELSE "off"]
    /\ wimg = [w \in Procs |-> Nil]
    /\ cClosed = FALSE
    /\ dbCClosed = FALSE
    /\ rg = NumPaths
    /\ pg = hashProcs
    /\ dg = 1
    /\ opc = "waitR"
    /\ halt = "none"
    /\ sinkpc = IF m = query THEN "prepare" ELSE "recv"
    /\ count = 0
    /\ imgs = <<>>
    /\ tasks = <<>>
    /\ lock = 0
    /\ rows \in {EmptyStore, PriorStore}
    /\ hashClosed = {}
    /\ now = 0
    /\ faults = 0
    /\ lookup = [i \in Images |-> "none"]
    /\ out = <<>>
    /\ argv = CommandLineOf(m)
    /\ mpc = "pipeline"
    /\ runs = <<m>>
    /\ NoListing

\* ------------------------------------------------------------ getImages
\* The image a scanner sends next, in listing order.
NextImage(p) == <<p, nfiles[paths[p]] - todo[p] + 1>>

\* ReadDir, the empty-directory test and the key file read (phash.go:52-75):
\* on a failure the scanner logs and returns without emitting.
ScanList(p) ==
    /\ Running
    /\ spc[p] = "list"
    /\ \E ok \in BOOLEAN :
        IF ok
        THEN /\ spc' = [spc EXCEPT ![p] = "emit"]
             /\ UNCHANGED <<todo, rg>>
        ELSE /\ spc' = [spc EXCEPT ![p] = "done"]
             /\ todo' = [todo EXCEPT ![p] = 0]
             /\ rg' = rg - 1
    /\ UNCHANGED <<mainVars, dirVars>>
    /\ UNCHANGED <<cfgVars, workVars, cClosed, dbCClosed, pg, dg, opc, halt,
                   sinkpc, storeVars, now, faults, lookup, out>>

\* c <- img (phash.go:107) meeting `for img := range c` of worker w, which
\* computes the fingerprint and closes img.img (phash.go:116-119).
ScanSend(p, w) ==
    /\ Running
    /\ spc[p] = "emit"
    /\ todo[p] > 0
    /\ IF cClosed
       THEN /\ halt' = "sendOnClosed"
            /\ UNCHANGED <<todo, wpc, wimg>>
       ELSE /\ wpc[w] = "recv"
            /\ wpc' = [wpc EXCEPT ![w] = "send"]
            /\ wimg' = [wimg EXCEPT ![w] = NextImage(p)]
            /\ todo' = [todo EXCEPT ![p] = @ - 1]
            /\ UNCHANGED halt
    /\ UNCHANGED <<mainVars, dirVars>>
    /\ UNCHANGED <<cfgVars, spc, cClosed, dbCClosed, rg, pg, dg, opc,
                   sinkpc, storeVars, now, faults, lookup, out>>

\* End of the listing loop and the deferred wg.Done (phash.go:51,108-109).
ScanDone(p) ==
    /\ Running
    /\ spc[p] = "emit"
    /\ todo[p] = 0
    /\ spc' = [spc EXCEPT ![p] = "done"]
    /\ rg' = rg - 1
    /\ UNCHANGED <<mainVars, dirVars>>
    /\ UNCHANGED <<cfgVars, todo, workVars, cClosed, dbCClosed, pg, dg, opc,
                   halt, sinkpc, storeVars, now, faults, lookup, out>>

\* --------------------------------------------------------- processImages
\* `range c` ends on the closed intake channel; deferred wg.Done.
WorkerDone(w) ==
    /\ Running
    /\ wpc[w] = "recv"
    /\ cClosed
    /\ wpc' = [wpc EXCEPT ![w] = "done"]
    /\ pg' = pg - 1
    /\ UNCHANGED <<mainVars, dirVars>>
    /\ UNCHANGED <<cfgVars, scanVars, wimg, cClosed, dbCClosed, rg, dg, opc,
                   halt, sinkpc, storeVars, now, faults, lookup, out>>

\* ---------------------------------------------------------------- pipeline
\* close(c) without waiting for the scanners.
CloseC_NoWait ==
    /\ Running
    /\ opc = "waitR"
    /\ cClosed' = TRUE
    /\ opc' = "waitP"
    /\ UNCHANGED <<mainVars, dirVars>>
    /\ UNCHANGED <<cfgVars, scanVars, workVars, dbCClosed, rg, pg, dg, halt,
                   sinkpc, storeVars, now, faults, lookup, out>>

\* rg.Wait(); close(c)  (phash.go:301-302)
CloseC ==
    /\ Running
    /\ opc = "waitR"
    /\ rg = 0
    /\ cClosed' = TRUE
    /\ opc' = "waitP"
    /\ UNCHANGED <<mainVars, dirVars>>
    /\ UNCHANGED <<cfgVars, scanVars, workVars, dbCClosed, rg, pg, dg, halt,
                   sinkpc, storeVars, now, faults, lookup, out>>

\* pg.Wait(); close(dbC)  (phash.go:303-304)
CloseDbC ==
    /\ Running
    /\ opc = "waitP"
    /\ pg = 0
    /\ dbCClosed' = TRUE
    /\ opc' = "waitD"
    /\ UNCHANGED <<mainVars, dirVars>>
    /\ UNCHANGED <<cfgVars, scanVars, workVars, cClosed, rg, pg, dg, halt,
                   sinkpc, storeVars, now, faults, lookup, out>>

\* dg.Wait() returns, the deferred db.Close() runs and main returns
\* (phash.go:274,305-306): the process ends with every goroutine in it.
PipelineReturn ==
    /\ Running
    /\ \/ opc = "waitD" /\ dg = 0
       \/ opc = "woken"
    /\ opc' = "returned"
    /\ UNCHANGED <<mainVars, dirVars>>
    /\ UNCHANGED <<cfgVars, scanVars, workVars, cClosed, dbCClosed, rg, pg,
                   dg, halt, sinkpc, storeVars, now, faults, lookup, out>>

\* sync.WaitGroup.Done on dg: a negative counter panics; a counter that
\* reaches zero releases the pipeline blocked in dg.Wait().
DoneDg ==
    /\ dg' = dg - 1
    /\ halt' = IF dg - 1 < 0 THEN "negativeWaitGroup" ELSE halt
    /\ opc' = IF dg - 1 = 0 /\ opc = "waitD" THEN "woken" ELSE opc


\* ------------------------------------------------------------ storeHashes
\* The goroutine started by `go retry(func() error { return
\* commitFrames(b) }, h.DBTimeout)` for batch b (phash.go:197,203).
NewTask(b) ==
    [imgs |-> b, pc |-> "call", idx |-> 1, pending |-> {}, attempts |-> 0,
     start |-> 0, err |-> "none", committed |-> FALSE, logged |-> FALSE,
     collided |-> FALSE]

\* Loop condition of the receive loop's commit test (phash.go:192).
BatchFull(n) == n % batch = 0

\* The receive loop handing its accumulator to the commit task and going on
\* with the same accumulator.
StoreRecv_SharedBatch(w) ==
    /\ Running
    /\ m = store
    /\ wpc[w] = "send"
    /\ IF dbCClosed
       THEN /\ halt' = "sendOnClosed"
            /\ UNCHANGED <<wpc, wimg, dg, count, imgs, tasks>>
       ELSE /\ sinkpc = "recv"
            /\ wpc' = [wpc EXCEPT ![w] = "recv"]
            /\ wimg' = [wimg EXCEPT ![w] = Nil]
            /\ IF BatchFull(count)
               THEN /\ dg' = dg + 1
                    /\ tasks' = Append(tasks, NewTask(Append(imgs, wimg[w])))
                    /\ imgs' = Append(imgs, wimg[w])
               ELSE /\ imgs' = Append(imgs, wimg[w])
                    /\ UNCHANGED <<dg, tasks>>
            /\ count' = count + 1
            /\ UNCHANGED halt
    /\ UNCHANGED <<mainVars, dirVars>>
    /\ UNCHANGED <<cfgVars, scanVars, cClosed, dbCClosed, rg, pg, opc, sinkpc,
                   lock, rows, hashClosed, now, faults, lookup, out>>

\* One iteration of `for img := range dbC` (phash.go:190-200) meeting
\* `dbC <- img` of worker w (phash.go:122).
StoreRecv(w) ==
    /\ Running
    /\ m = store
    /\ wpc[w] = "send"
    /\ IF dbCClosed
       THEN /\ halt' = "sendOnClosed"
            /\ UNCHANGED <<wpc, wimg, dg, count, imgs, tasks>>
       ELSE /\ sinkpc = "recv"
            /\ wpc' = [wpc EXCEPT ![w] = "recv"]
            /\ wimg' = [wimg EXCEPT ![w] = Nil]
            /\ IF BatchFull(count)
               THEN /\ dg' = dg + 1
                    /\ tasks' = Append(tasks, NewTask(Append(imgs, wimg[w])))
                    /\ imgs' = <<>>
               ELSE /\ imgs' = Append(imgs, wimg[w])
                    /\ UNCHANGED <<dg, tasks>>
            /\ count' = count + 1
            /\ UNCHANGED halt
    /\ UNCHANGED <<mainVars, dirVars>>
    /\ UNCHANGED <<cfgVars, scanVars, cClosed, dbCClosed, rg, pg, opc, sinkpc,
                   lock, rows, hashClosed, now, faults, lookup, out>>

\* The receive loop ends on the closed channel: wg.Add(1), the final
\* `go retry(...)` and the deferred wg.Done (phash.go:138,202-205).
StoreClose ==
    /\ Running
    /\ m = store
    /\ sinkpc = "recv"
    /\ dbCClosed
    /\ tasks' = Append(tasks, NewTask(imgs))
    /\ sinkpc' = "done"
    /\ dg' = dg + 1 - 1
    /\ opc' = IF dg = 0 /\ opc = "waitD" THEN "woken" ELSE opc
    /\ UNCHANGED <<mainVars, dirVars>>
    /\ UNCHANGED <<cfgVars, scanVars, workVars, cClosed, dbCClosed, rg, pg,
                   halt, count, imgs, lock, rows, hashClosed, now, faults,
                   lookup, out>>

\* The deadline test with the deadline itself still inside the budget.
TimeLeft_Inclusive(t) == now <= tasks[t].start + DBTimeout

\* `time.Now().Before(start.Add(timeout))` (phash.go:177).
TimeLeft(t) == now < tasks[t].start + DBTimeout

\* The errors after which retry calls f again (phash.go:179-182).
Retryable(e) == e = "locked"

\* The table after the transaction of task t commits.
Committed(t) ==
    [r \in AllRows |-> rows[r] + IF r \in tasks[t].pending THEN 1 ELSE 0]

\* A rollback that leaves the attempt's inserts in the table.
RolledBack_Visible(t) == Committed(t)

\* The table after the transaction of task t is rolled back.
RolledBack(t) == rows

\* commitFrames returns e ("nil", "locked" or "other"): every error is
\* logged before the return, the deferred tx.Rollback() drops the pending
\* rows and the write lock (it does nothing after a commit), the deferred
\* wg.Done() runs, and retry decides whether to call again
\* (phash.go:140-142,177-184).  idx keeps the position the attempt reached.
EndAttempt(t, e) ==
    /\ tasks' = [tasks EXCEPT ![t] =
            [@ EXCEPT !.pc = IF Retryable(e) /\ TimeLeft(t) THEN "call" ELSE "done",
                      !.err = e,
                      !.pending = {},
                      !.collided = @ \/ e = "locked",
                      !.committed = @ \/ e = "nil",
                      !.logged = @ \/ e # "nil"]]
    /\ rows' = IF e = "nil" THEN Committed(t) ELSE RolledBack(t)
    /\ lock' = IF lock = t THEN 0 ELSE lock
    /\ DoneDg

\* retry calls f: db.Begin and tx.Prepare (phash.go:141-151,175-178).  A failed
\* Begin returns a nil tx, on which the deferred tx.Rollback() panics.
\* Every call that fails takes one from dg, whose going negative ends the
\* process, so the number of calls of one loop is bounded.
TaskBegin(t) ==
    /\ Running
    /\ t \in DOMAIN tasks
    /\ tasks[t].pc = "call"
    /\ LET s == IF tasks[t].attempts = 0 THEN now ELSE tasks[t].start
           called == [tasks EXCEPT ![t] =
                        [@ EXCEPT !.attempts = @ + 1, !.start = s]]
       IN  \/ /\ tasks' = [called EXCEPT ![t] =
                             [@ EXCEPT !.pc = "exec", !.idx = 1]]
              /\ UNCHANGED <<dg, opc, halt, lock, faults>>
           \/ /\ faults < MaxFaults
              /\ faults' = faults + 1
              /\ \/ /\ tasks' = [called EXCEPT ![t] =
                                   [@ EXCEPT !.logged = TRUE, !.err = "other",
                                             !.idx = 1]]
                    /\ halt' = "nilTx"
                    /\ UNCHANGED <<dg, opc, lock>>
                 \/ /\ tasks' = [called EXCEPT ![t] =
                                   [@ EXCEPT !.logged = TRUE, !.err = "other",
                                             !.idx = 1, !.pc = "done"]]
                    /\ lock' = lock
                    /\ DoneDg
    /\ UNCHANGED <<mainVars, dirVars>>
    /\ UNCHANGED <<cfgVars, scanVars, workVars, cClosed, dbCClosed, rg, pg,
                   sinkpc, count, imgs, rows, hashClosed, now, lookup, out>>


\* img.hash.ToBytes() (phash.go:157): reading a Mat that an earlier attempt
\* has Close()d yields the old bytes or an empty buffer.
HashRead(img) ==
    IF img \in hashClosed THEN {Compute(img), <<>>} ELSE {Compute(img)}

\* The store's uniqueness constraint: the row is already committed or
\* already inserted by this transaction ("UNIQUE constraint failed").
UniqueFails(t, r) == rows[r] > 0 \/ r \in tasks[t].pending

\* The result of stmt.Exec for row r when nothing else fails.
ExecResult(t, r) == IF UniqueFails(t, r) THEN "unique" ELSE "nil"

\* An insert loop that gives up on a uniqueness violation as on any error.
InsertAborts_OnUnique(e) == e # "nil"

\* The error test of the insert loop (phash.go:161-164): a uniqueness
\* violation is passed over, any other error ends the attempt.
InsertAborts(e) == e # "nil" /\ e # "unique"

\* One iteration of the insert loop (phash.go:152-165): read and close the
\* fingerprint, execute the insert.  The first write of a transaction takes
\* the store's write lock; it fails with "database is locked" while another
\* transaction holds it.
TaskExec(t) ==
    /\ Running
    /\ t \in DOMAIN tasks
    /\ tasks[t].pc = "exec"
    /\ tasks[t].idx <= Len(tasks[t].imgs)
    /\ LET img == tasks[t].imgs[tasks[t].idx]
       IN  \/ /\ img \in hashClosed
              /\ halt' = "closedMat"
              /\ rows' = rows
              /\ UNCHANGED <<tasks, lock, dg, opc, hashClosed, faults>>
           \/ /\ hashClosed' = hashClosed \cup {img}
              /\ \E hv \in HashRead(img) :
                  IF lock \notin {0, t}
                  THEN /\ EndAttempt(t, "locked")
                       /\ UNCHANGED faults
                  ELSE \/ /\ ~ InsertAborts(ExecResult(t, RowOf(img, hv)))
                          /\ lock' = t
                          /\ tasks' = [tasks EXCEPT ![t] =
                                [@ EXCEPT !.idx = @ + 1,
                                          !.pending =
                                            IF UniqueFails(t, RowOf(img, hv))
                                            THEN @
                                            ELSE @ \cup {RowOf(img, hv)}]]
                          /\ UNCHANGED <<dg, opc, halt, faults, rows>>
                       \/ /\ InsertAborts(ExecResult(t, RowOf(img, hv)))
                          /\ EndAttempt(t, "other")
                          /\ UNCHANGED faults
                       \/ /\ faults < MaxFaults
                          /\ faults' = faults + 1
                          /\ EndAttempt(t, "other")
    /\ UNCHANGED <<mainVars, dirVars>>
    /\ UNCHANGED <<cfgVars, scanVars, workVars, cClosed, dbCClosed, rg, pg,
                   sinkpc, count, imgs, now, lookup, out>>

\* tx.Commit() after the insert loop (phash.go:166-171).
TaskCommit(t) ==
    /\ Running
    /\ t \in DOMAIN tasks
    /\ tasks[t].pc = "exec"
    /\ tasks[t].idx > Len(tasks[t].imgs)
    /\ \/ /\ EndAttempt(t, "nil")
          /\ UNCHANGED faults
       \/ /\ faults < MaxFaults
          /\ faults' = faults + 1
          /\ EndAttempt(t, "other")
    /\ UNCHANGED <<mainVars, dirVars>>
    /\ UNCHANGED <<cfgVars, scanVars, workVars, cClosed, dbCClosed, rg, pg,
                   sinkpc, count, imgs, hashClosed, now, lookup, out>>

\* Time passes.  Only retry reads the clock (phash.go:175,177), so the clock
\* is advanced only while some retry loop can still observe the difference.
Tick ==
    /\ Running
    /\ now < MaxTime
    /\ \E t \in DOMAIN tasks :
          tasks[t].pc # "done" /\ tasks[t].attempts > 0 /\ TimeLeft(t)
    /\ now' = now + 1
    /\ UNCHANGED <<mainVars, dirVars>>
    /\ UNCHANGED <<cfgVars, scanVars, workVars, cClosed, dbCClosed, rg, pg, dg,
                   opc, halt, sinkpc, storeVars, faults, lookup, out>>

\* ------------------------------------------------------------ printHashes
\* A print loop that puts the newest line first.
PrintLine_First(lines, img) == <<<<img, unpackHash(Compute(img))>>>> \o lines

\* fmt.Printf("%v\t%v\n", img.path, un) (phash.go:211-212): one line after
\* the lines printed so far.
PrintLine(lines, img) == Append(lines, <<img, unpackHash(Compute(img))>>)

\* One iteration of printHashes' loop (phash.go:210-213).
PrintRecv(w) ==
    /\ Running
    /\ m = show
    /\ wpc[w] = "send"
    /\ IF dbCClosed
       THEN /\ halt' = "sendOnClosed"
            /\ UNCHANGED <<wpc, wimg, out>>
       ELSE /\ sinkpc = "recv"
            /\ wpc' = [wpc EXCEPT ![w] = "recv"]
            /\ wimg' = [wimg EXCEPT ![w] = Nil]
            /\ out' = PrintLine(out, wimg[w])
            /\ UNCHANGED halt
    /\ UNCHANGED <<mainVars, dirVars>>
    /\ UNCHANGED <<cfgVars, scanVars, cClosed, dbCClosed, rg, pg, dg, opc,
                   sinkpc, storeVars, now, faults, lookup>>

\* printHashes' loop ends on the closed channel; deferred wg.Done.
PrintClose ==
    /\ Running
    /\ m = show
    /\ sinkpc = "recv"
    /\ dbCClosed
    /\ sinkpc' = "done"
    /\ DoneDg
    /\ UNCHANGED <<mainVars, dirVars>>
    /\ UNCHANGED <<cfgVars, scanVars, workVars, cClosed, dbCClosed, rg, pg,
                   storeVars, now, faults, lookup, out>>

\* ----------------------------------------------------------- lookupHashes
\* db.Prepare(lookupHashesQuery) (phash.go:220-224): on an error the sink
\* logs and returns before its receive loop.
LookupPrepare ==
    /\ Running
    /\ m = query
    /\ sinkpc = "prepare"
    /\ \/ /\ sinkpc' = "recv"
          /\ UNCHANGED <<dg, opc, halt, faults>>
       \/ /\ faults < MaxFaults
          /\ faults' = faults + 1
          /\ sinkpc' = "done"
          /\ DoneDg
    /\ UNCHANGED <<mainVars, dirVars>>
    /\ UNCHANGED <<cfgVars, scanVars, workVars, cClosed, dbCClosed, rg, pg,
                   storeVars, now, lookup, out>>

\* The receive loop starting a lookup without wg.Add(1).
LookupRecv_NoAdd(w) ==
    /\ Running
    /\ m = query
    /\ wpc[w] = "send"
    /\ IF dbCClosed
       THEN /\ halt' = "sendOnClosed"
            /\ UNCHANGED <<wpc, wimg, dg, lookup>>
       ELSE /\ sinkpc = "recv"
            /\ wpc' = [wpc EXCEPT ![w] = "recv"]
            /\ wimg' = [wimg EXCEPT ![w] = Nil]
            /\ dg' = dg
            /\ lookup' = [lookup EXCEPT ![wimg[w]] = "running"]
            /\ UNCHANGED halt
    /\ UNCHANGED <<mainVars, dirVars>>
    /\ UNCHANGED <<cfgVars, scanVars, cClosed, dbCClosed, rg, pg, opc,
                   sinkpc, storeVars, now, faults, out>>

\* One iteration of lookupHashes' loop (phash.go:251-254): wg.Add(1) and
\* `go lookupHash(img)`.
LookupRecv(w) ==
    /\ Running
    /\ m = query
    /\ wpc[w] = "send"
    /\ IF dbCClosed
       THEN /\ halt' = "sendOnClosed"
            /\ UNCHANGED <<wpc, wimg, dg, lookup>>
       ELSE /\ sinkpc = "recv"
            /\ wpc' = [wpc EXCEPT ![w] = "recv"]
            /\ wimg' = [wimg EXCEPT ![w] = Nil]
            /\ dg' = dg + 1
            /\ lookup' = [lookup EXCEPT ![wimg[w]] = "running"]
            /\ UNCHANGED halt
    /\ UNCHANGED <<mainVars, dirVars>>
    /\ UNCHANGED <<cfgVars, scanVars, cClosed, dbCClosed, rg, pg, opc,
                   sinkpc, storeVars, now, faults, out>>

\* lookupHashes' loop ends on the closed channel; deferred wg.Done.
LookupClose ==
    /\ Running
    /\ m = query
    /\ sinkpc = "recv"
    /\ dbCClosed
    /\ sinkpc' = "done"
    /\ DoneDg
    /\ UNCHANGED <<mainVars, dirVars>>
    /\ UNCHANGED <<cfgVars, scanVars, workVars, cClosed, dbCClosed, rg, pg,
                   storeVars, now, faults, lookup, out>>

\* lookupHash(img) (phash.go:225-249): a query error is logged and ends the
\* lookup; a row-scan error or a row-iteration error ends in log.Fatal.
LookupHash(img) ==
    /\ Running
    /\ lookup[img] = "running"
    /\ \/ /\ lookup' = [lookup EXCEPT ![img] = "printed"]
          /\ out' = Append(out, <<img, unpackHash(Compute(img)),
                                  Matches(unpackHash(Compute(img)))>>)
          /\ DoneDg
          /\ UNCHANGED faults
       \/ /\ faults < MaxFaults
          /\ faults' = faults + 1
          /\ \/ /\ lookup' = [lookup EXCEPT ![img] = "failed"]
                /\ DoneDg
                /\ UNCHANGED out
             \/ /\ Matches(unpackHash(Compute(img))) # {}
                /\ lookup' = [lookup EXCEPT ![img] = "scanfatal"]
                /\ halt' = "fatal"
                /\ UNCHANGED <<dg, opc, out>>
             \/ /\ lookup' = [lookup EXCEPT ![img] = "rowsfatal"]
                /\ halt' = "fatal"
                /\ UNCHANGED <<dg, opc, out>>
    /\ UNCHANGED <<mainVars, dirVars>>
    /\ UNCHANGED <<cfgVars, scanVars, workVars, cClosed, dbCClosed, rg, pg,
                   sinkpc, storeVars, now>>

\* -------------------------------------------------------------- the system
Next ==
    \/ \E p \in Paths : ScanList(p)
    \/ \E p \in Paths, w \in Procs : ScanSend(p, w)
    \/ \E p \in Paths : ScanDone(p)
    \/ \E w \in Procs : WorkerDone(w)
    \/ CloseC
    \/ CloseDbC
    \/ PipelineReturn
    \/ \E w \in Procs : StoreRecv(w)
    \/ StoreClose
    \/ \E t \in Tasks : TaskBegin(t)
    \/ \E t \in Tasks : TaskExec(t)
    \/ \E t \in Tasks : TaskCommit(t)
    \/ Tick
    \/ \E w \in Procs : PrintRecv(w)
    \/ PrintClose
    \/ LookupPrepare
    \/ \E w \in Procs : LookupRecv(w)
    \/ LookupClose
    \/ \E img \in Images : LookupHash(img)

Spec == Init /\ [][Next]_vars

\* ------------------------------------------------- getImages, entry by entry
\* Longest file name and longest key file, in symbols.
MaxName == 4
MaxKey == 2

\* The symbols of a file name: a letter, the dash, two digits, and ".jpg"
\* as one symbol.
NameSyms == {"a", "-", "1", "2", ".jpg"}
Digits == {"1", "2"}

\* The symbols of a key file: a letter, a blank, a line end.
KeySyms == {"k", " ", "\n"}

RECURSIVE Strings(_, _)
\* The strings over syms of length at most n.
Strings(syms, n) ==
    IF n = 0 THEN {<<>>}
    ELSE LET shorter == Strings(syms, n - 1)
         IN  shorter \cup {Append(x, c) : x \in shorter, c \in syms}

Names == Strings(NameSyms, MaxName) \ {<<>>}

\* A directory entry: its name and whether gocv.IMRead decodes it.
Entries == [name : Names, decodes : BOOLEAN]

\* Scenario A: d1 holds img-1.jpg, img-2.jpg and note.txt.
ScenarioA ==
    << [name |-> <<"a", "-", "1", ".jpg">>, decodes |-> TRUE],
       [name |-> <<"a", "-", "2", ".jpg">>, decodes |-> TRUE],
       [name |-> <<"a", "a">>, decodes |-> FALSE] >>

\* The positions k of name n where `-([0-9]+)[.]jpg` matches: a dash, one
\* or more digits, ".jpg".  The match may end before the name does.
DashMatches(n) ==
    {k \in 1..Len(n) :
        /\ n[k] = "-"
        /\ \E e \in (k + 1)..(Len(n) - 1) :
              /\ \A i \in (k + 1)..e : n[i] \in Digits
              /\ n[e + 1] = ".jpg"}

\* The last position of the digit run that starts after position k.
DigitsEnd(n, k) ==
    CHOOSE e \in k..Len(n) :
        /\ \A i \in (k + 1)..e : n[i] \in Digits
        /\ (e = Len(n) \/ n[e + 1] \notin Digits)

\* re.FindStringSubmatch(f.Name()) for `(.*)-([0-9]+)[.]jpg` (phash.go:77,
\* 80): <<>> for nil, else <<matches[1], matches[2]>>; the greedy `(.*)`
\* runs to the last dash at which the rest of the pattern matches.
FindStringSubmatch(n) ==
    IF DashMatches(n) = {} THEN <<>>
    ELSE LET k == CHOOSE x \in DashMatches(n) : \A y \in DashMatches(n) : y <= x
         IN  <<SubSeq(n, 1, k - 1), SubSeq(n, k + 1, DigitsEnd(n, k))>>

RECURSIVE Atoi(_)
\* strconv.Atoi of a string of digits (phash.go:87).
Atoi(ds) ==
    IF ds = <<>> THEN 0
    ELSE 10 * Atoi(SubSeq(ds, 1, Len(ds) - 1))
         + (IF ds[Len(ds)] = "1" THEN 1 ELSE 2)

\* path.Join("d1", k) (phash.go:101): an empty element is dropped.
JoinDir(k) == IF k = <<>> THEN <<"d1">> ELSE <<"d1", "/">> \o k

\* One directory is listed by one scanner, entry by entry.
InitScan ==
    /\ listing \in {<<>>, ScenarioA} \cup {<<e>> : e \in Entries}
    /\ keyFile \in {<<>>, <<"unreadable">>}
                  \cup {<<"content", k>> : k \in Strings(KeySyms, MaxKey)}
    /\ gpc = "list"
    /\ visited = 0
    /\ emitted = <<>>
    /\ argv = CommandLineOf(show)
    /\ mpc = "pipeline"
    /\ runs = <<show>>
    /\ NotLaunched

\* ioutil.ReadDir and the empty-directory test (phash.go:52-60).
ScanReadDir ==
    /\ gpc = "list"
    /\ \E ok \in BOOLEAN :
          gpc' = IF ok /\ Len(listing) # 0 THEN "key" ELSE "done"
    /\ UNCHANGED <<listing, keyFile, visited, emitted, mainVars, pipeVars>>

\* The key file read (phash.go:61-75): without -keyfile nothing is read;
\* an unreadable key file and one whose content is "" end the scanner.
ScanKeyFile ==
    /\ gpc = "key"
    /\ gpc' = IF keyFile = <<>> THEN "loop"
              ELSE IF keyFile[1] = "unreadable" THEN "done"
              ELSE IF keyFile[2] = <<>> THEN "done"
              ELSE "loop"
    /\ UNCHANGED <<listing, keyFile, visited, emitted, mainVars, pipeVars>>

\* The key of the descriptor of an entry whose name gave matches mt
\* (phash.go:98-102).
KeyOf(mt) == IF keyFile # <<>> THEN keyFile[2] ELSE JoinDir(mt[1])

\* One iteration of the loop over the entries (phash.go:78-108).
ScanEntry ==
    /\ gpc = "loop"
    /\ visited < Len(listing)
    /\ LET f  == listing[visited + 1]
           mt == FindStringSubmatch(f.name)
       IN  emitted' =
              IF mt = <<>> \/ ~ f.decodes THEN emitted
              ELSE Append(emitted, [key |-> KeyOf(mt), frame |-> Atoi(mt[2])])
    /\ visited' = visited + 1
    /\ UNCHANGED <<listing, keyFile, gpc, mainVars, pipeVars>>

\* The loop ends (phash.go:108-109).
ScanReturn ==
    /\ gpc = "loop"
    /\ visited = Len(listing)
    /\ gpc' = "done"
    /\ UNCHANGED <<listing, keyFile, visited, emitted, mainVars, pipeVars>>

NextScan ==
    \/ ScanReadDir
    \/ ScanKeyFile
    \/ ScanEntry
    \/ ScanReturn

SpecScan == InitScan /\ [][NextScan]_vars

\* ------------------------------------------------------- one run after another
\* Most images of a run whose path arguments all name one directory.
MaxStored == MaxImages + 1

\* A store run over an empty table, every path argument naming the same
\* directory, with one worker: the same pictures are received once per
\* argument.
InitRuns ==
    /\ m = store
    /\ paths = [p \in Paths |-> 1]
    /\ nfiles \in [Dirs -> 1..MaxFiles]
    /\ \A d \in Dirs : d # 1 => nfiles[d] = 1
    /\ NumPaths * nfiles[1] <= MaxStored
    /\ hashProcs = 1
    /\ spc = [p \in Paths |-> "list"]
    /\ todo = [p \in Paths |-> nfiles[paths[p]]]
    /\ wpc = [w \in Procs |-> IF w <= hashProcs THEN "recv" ELSE "off"]
    /\ wimg = [w \in Procs |-> Nil]
    /\ cClosed = FALSE
    /\ dbCClosed = FALSE
    /\ rg = NumPaths
    /\ pg = hashProcs
    /\ dg = 1
    /\ opc = "waitR"
    /\ halt = "none"
    /\ sinkpc = "recv"
    /\ count = 0
    /\ imgs = <<>>
    /\ tasks = <<>>
    /\ lock = 0
    /\ rows = EmptyStore
    /\ hashClosed = {}
    /\ now = 0
    /\ faults = 0
    /\ lookup = [i \in Images |-> "none"]
    /\ out = <<>>
    /\ argv = CommandLineOf(m)
    /\ mpc = "pipeline"
    /\ runs = <<m>>
    /\ NoListing

\* After the store run has returned the program is invoked again, in mode
\* md, with the same paths and the same store file: main passes its tests
\* (part_000:29-50) and pipeline launches every goroutine anew
\* (phash.go:276-300); the table is what the first run left.
SecondRun(md) ==
    /\ mpc = "pipeline"
    /\ runs = <<store>>
    /\ opc = "returned"
    /\ halt = "none"
    /\ md \in {query, store}
    /\ m' = md
    /\ argv' = CommandLineOf(md)
    /\ runs' = Append(runs, md)
    /\ spc' = [p \in Paths |-> "list"]
    /\ todo' = [p \in Paths |-> nfiles[paths[p]]]
    /\ wpc' = [w \in Procs |-> IF w <= hashProcs THEN "recv" ELSE "off"]
    /\ wimg' = [w \in Procs |-> Nil]
    /\ cClosed' = FALSE
    /\ dbCClosed' = FALSE
    /\ rg' = NumPaths
    /\ pg' = hashProcs
    /\ dg' = 1
    /\ opc' = "waitR"
    /\ sinkpc' = IF md = query THEN "prepare" ELSE "recv"
    /\ count' = 0
    /\ imgs' = <<>>
    /\ tasks' = <<>>
    /\ lock' = 0
    /\ hashClosed' = {}
    /\ now' = 0
    /\ lookup' = [i \in Images |-> "none"]
    /\ out' = <<>>
    /\ UNCHANGED <<mpc, dirVars, paths, nfiles, hashProcs, halt, rows, faults>>

NextRuns ==
    \/ \E p \in Paths : ScanList(p)
    \/ \E p \in Paths, w \in Procs : ScanSend(p, w)
    \/ \E p \in Paths : ScanDone(p)
    \/ \E w \in Procs : WorkerDone(w)
    \/ CloseC
    \/ CloseDbC
    \/ PipelineReturn
    \/ \E w \in Procs : StoreRecv(w)
    \/ StoreClose
    \/ \E t \in Tasks : TaskBegin(t)
    \/ \E t \in Tasks : TaskExec(t)
    \/ \E t \in Tasks : TaskCommit(t)
    \/ Tick
    \/ LookupPrepare
    \/ \E w \in Procs : LookupRecv(w)
    \/ LookupClose
    \/ \E img \in Images : LookupHash(img)
    \/ \E md \in Modes : SecondRun(md)

SpecRuns == InitRuns /\ [][NextRuns]_vars

TypeOK ==
    /\ m \in Modes
    /\ rg \in 0..NumPaths
    /\ pg \in 0..MaxProcs
    /\ lock \in 0..Len(tasks)
    /\ now \in 0..MaxTime
    /\ halt \in {"none", "sendOnClosed", "negativeWaitGroup", "nilTx",
                 "closedMat", "fatal"}


\* ======================================================================
\* Properties
\* ======================================================================

\* The process has ended: main returned or the process died.
Finished == opc = "returned" \/ halt # "none"

\* The images the sink has taken from dbC in store mode.
Handed == UNION {{tasks[t].imgs[i] : i \in 1..Len(tasks[t].imgs)} : t \in DOMAIN tasks}

\* C1: the intake channel is closed only after every scanner has finished,
\* the output channel only after every worker has finished, and no scanner
\* or worker ever sends on a closed channel.
C1_CloseAfterProducers ==
    /\ cClosed => \A p \in Paths : spc[p] = "done"
    /\ dbCClosed => \A w \in Procs : wpc[w] \in {"off", "done"}
    /\ halt # "sendOnClosed"

\* C1 witness: both channels are closed after images went through them.
C1_Witness ==
    /\ cClosed
    /\ dbCClosed
    /\ \E p \in Paths : spc[p] = "done" /\ todo[p] = 0 /\ nfiles[paths[p]] > 0
    /\ count + Len(out) > 0

\* C2: in store mode dg.Wait() returns only after storeHashes has finished
\* and every commit task has finished its last attempt.
C2_WaitCoversCommits ==
    (m = store /\ opc = "returned") =>
        /\ sinkpc = "done"
        /\ \A t \in DOMAIN tasks : tasks[t].pc = "done"

\* C3: in store mode, when the run has finished every image a worker
\* forwarded is in a batch handed to a commit task, and every such batch is
\* committed or was logged as failed.
C3_NoBatchDropped ==
    (m = store /\ opc = "returned") =>
        /\ imgs = <<>> \/ sinkpc = "done"
        /\ Cardinality(Handed) + (IF sinkpc = "done" THEN 0 ELSE Len(imgs)) = count
        /\ \A t \in DOMAIN tasks : tasks[t].committed \/ tasks[t].logged

\* C4: no worker is blocked sending to the output channel after the sink
\* has stopped receiving.
C4_NoWorkerStuck ==
    ~ \E w \in Procs : wpc[w] = "send" /\ sinkpc = "done"

\* C5: the batches handed to commit tasks are batches of exactly `batch`
\* images, except the final one handed off on channel closure, which has
\* count mod batch images.
C5_BatchesOfHundred ==
    m = store =>
        \A t \in DOMAIN tasks :
            IF sinkpc = "done" /\ t = Len(tasks)
            THEN Len(tasks[t].imgs) = count % batch
            ELSE Len(tasks[t].imgs) = batch

\* C6: retry makes at least one attempt, returns at once after a success or
\* an error other than "database is locked", calls again only after a
\* "database is locked" failure while the time since the start is below the
\* timeout, and returns the lock error once the timeout has elapsed.
C6_RetryPolicy ==
    [][\A t \in DOMAIN tasks :
        LET a == tasks[t]
            b == tasks'[t]
            inTime == now < a.start + DBTimeout
        IN  /\ (a.pc # "done" /\ b.pc = "done") =>
                /\ b.attempts >= 1
                /\ b.err \in {"nil", "other", "locked"}
                /\ b.err = "locked" => ~ inTime
            /\ (a.pc = "exec" /\ b.pc = "call") =>
                /\ b.err = "locked"
                /\ inTime
            /\ (a.pc = "exec" /\ b.pc = "exec") =>
                /\ b.attempts = a.attempts
            /\ b.attempts > a.attempts =>
                /\ a.pc = "call"
                /\ a.attempts = 0 \/ (a.err = "locked" /\ a.attempts >= 1)
      ]_vars

\* C6 witness: a retry loop that called again after a lock error and then
\* gave up on the elapsed timeout with the lock error.
C6_Witness ==
    \E t \in DOMAIN tasks :
        /\ tasks[t].attempts >= 2
        /\ tasks[t].pc = "done"
        /\ tasks[t].err = "locked"

\* C7: when two commit tasks collide on the write lock and neither runs
\* out of its timeout, the run finishes without a crash, both batches are
\* committed and no row is stored twice.
C7_CollisionBothCommit ==
    (/\ m = store
     /\ Finished
     /\ faults = 0
     /\ \E t \in DOMAIN tasks : tasks[t].collided
     /\ \A t \in DOMAIN tasks : ~ (tasks[t].pc = "done" /\ tasks[t].err = "locked")) =>
        /\ halt = "none"
        /\ \A t \in DOMAIN tasks : tasks[t].committed
        /\ \A r \in AllRows : rows[r] <= 1

\* C8: a commit attempt that fails leaves the table as it was; an attempt
\* that commits adds all of its rows in one step, after every insert of the
\* batch was executed; the rows pending in other transactions are never
\* touched; and the table changes in no other way.
C8_AtomicCommit ==
    [][/\ \A t \in DOMAIN tasks :
            LET a == tasks[t]
                b == tasks'[t]
            IN  /\ (a.pc # b.pc /\ b.pc \in {"call", "done"} /\ b.err # "nil") =>
                    /\ rows' = rows
                    /\ b.pending = {}
                    /\ ~ b.committed
                /\ (~ a.committed /\ b.committed) =>
                    /\ a.idx > Len(a.imgs)
                    /\ \A r \in AllRows :
                        rows'[r] = rows[r] + IF r \in a.pending THEN 1 ELSE 0
                /\ a # b =>
                    \A u \in DOMAIN tasks : u # t => tasks'[u] = tasks[u]
       /\ rows' # rows =>
            \E t \in DOMAIN tasks : ~ tasks[t].committed /\ tasks'[t].committed
      ]_vars

\* C8 witness: an attempt failed with another error after its first insert
\* had been executed, and that row is not in the table.
C8_Witness ==
    \E t \in DOMAIN tasks :
        /\ tasks[t].pc = "done"
        /\ tasks[t].err = "other"
        /\ tasks[t].idx > 1
        /\ rows[RowOf(tasks[t].imgs[1], Compute(tasks[t].imgs[1]))] = 0
        /\ \E u \in DOMAIN tasks : tasks[u].committed

\* C9: in query mode a failed lookup does not terminate the process.
C9_LookupFailureContained ==
    (\E img \in Images : lookup[img] \in {"failed", "scanfatal", "rowsfatal"}) =>
        halt = "none"

\* C10: in query mode the sink's WaitGroup counter is the number of
\* goroutines of the sink still running (lookupHashes itself and every
\* lookup started and not finished), so it is never negative and not zero
\* while a lookup is outstanding, and dg.Wait() returns only after all of
\* them have finished.
C10_QueryWaitGroup ==
    m = query =>
        /\ dg = (IF sinkpc = "done" THEN 0 ELSE 1) +
                Cardinality({img \in Images :
                    lookup[img] \in {"running", "scanfatal", "rowsfatal"}})
        /\ dg >= 0
        /\ opc = "returned" =>
            /\ sinkpc = "done"
            /\ \A img \in Images : lookup[img] \in {"none", "printed", "failed"}

\* C10 witness: the run returned after a lookup was started and finished.
C10_Witness ==
    /\ m = query
    /\ opc = "returned"
    /\ \E img \in Images : lookup[img] = "printed"
    /\ \E img \in Images : lookup[img] = "failed"


\* ----------------------------------------------------------------- main
\* main has ended: it returned or died in log.Fatalf.
MainEnded == mpc \in {"exit", "fatal"}

\* Exactly one of the three parsed mode flags is set.
OneMode ==
    \/ FlagQuery /\ ~FlagStore /\ ~FlagShow
    \/ ~FlagQuery /\ FlagStore /\ ~FlagShow
    \/ ~FlagQuery /\ ~FlagStore /\ FlagShow

\* The mode the parsed flags select when exactly one is set.
SelectedMode == IF FlagQuery THEN query ELSE IF FlagStore THEN store ELSE show

\* C11 as stated: the program launches pipeline work if and only if exactly
\* one mode flag is selected (defaults included): with one mode selected
\* it runs exactly one pipeline, with the sink of that mode; otherwise it
\* dies before anything is launched.
C11_LaunchIffOneMode ==
    /\ Len(runs) <= 1
    /\ MainEnded =>
          IF OneMode
          THEN mpc = "exit" /\ runs = <<SelectedMode>>
          ELSE mpc = "fatal" /\ runs = <<>>

\* The command line passes every test of main: it has an argument, selects
\* exactly one mode, and names a store when the mode needs one.
ValidCommandLine ==
    /\ NumArgs >= 1
    /\ OneMode
    /\ (FlagQuery \/ FlagStore) => argv.db = "file"

\* C11, amended: the program launches pipeline work if and only if the
\* command line has at least one argument, selects exactly one mode
\* (defaults included) and, for query or store, sets -db to a non-empty
\* value: then it runs exactly one pipeline, with the sink of that mode;
\* otherwise it dies before anything is launched.
C11_LaunchIffValid ==
    /\ Len(runs) <= 1
    /\ mpc = "fatal" => runs = <<>>
    /\ MainEnded =>
          IF ValidCommandLine
          THEN mpc = "exit" /\ runs = <<SelectedMode>>
          ELSE mpc = "fatal" /\ runs = <<>>

\* main returned after one store run, selected by -store -show=false.
C11_Witness ==
    /\ mpc = "exit"
    /\ runs = <<store>>
    /\ argv.store = "true"
    /\ argv.show = "false"

\* C12: invoked with no positional path argument, with or without flags,
\* the program dies at startup: no pipeline is ever run with an empty list
\* of paths.
C12_NoRunWithoutPaths == argv.npos = 0 => (runs = <<>> /\ mpc # "exit")


\* ---------------------------------------------------------------- store
\* The rows a commit of image img can have written: the one with the words
\* of its hash, or the one with the words of an empty buffer.
StoredAs(img) ==
    {<<paths[img[1]], img[2], unpackHash(HashBytes(paths[img[1]], img[2]))>>,
     <<paths[img[1]], img[2], unpackHash(<<>>)>>}

\* C13: with the uniqueness constraint on the full tuple, storing the same
\* (key, frame, fingerprint) again, in the same batch, in another batch of
\* the run or in a second run, leaves exactly one such row; the uniqueness
\* violation does not end the commit attempt (an insert loop ends with an
\* error only on a lock error or an injected store error), does not end the
\* process, and the commit of the batch leaves a row for each of its images.
C13_StoreIdempotent ==
    [][/\ \A r \in AllRows : rows'[r] <= 1
       /\ \A t \in DOMAIN tasks :
            LET a == tasks[t]
                b == IF t \in DOMAIN tasks' THEN tasks'[t] ELSE a
            IN  /\ (a.pc = "exec" /\ a.idx <= Len(a.imgs) /\ b.pc # "exec"
                    /\ halt' = halt) =>
                        \/ b.err = "locked"
                        \/ b.err = "other" /\ faults' = faults + 1
                /\ (a.pc = "exec" /\ b.pc = "exec" /\ b.idx = a.idx + 1) =>
                        /\ halt' = halt
                        /\ \E r \in StoredAs(a.imgs[a.idx]) :
                              rows[r] = 1 \/ r \in b.pending
                /\ (~ a.committed /\ b.committed) =>
                        \A i \in 1..Len(a.imgs) :
                            \E r \in StoredAs(a.imgs[i]) : rows'[r] = 1
      ]_vars

\* C13 witness: a second store run over the same directory has returned
\* with both batches committed at the first attempt, the second batch
\* holding the same picture twice, and one row per picture in the table.
C13_Witness ==
    /\ runs = <<store, store>>
    /\ opc = "returned"
    /\ halt = "none"
    /\ faults = 0
    /\ Len(tasks) = 2
    /\ \A t \in DOMAIN tasks : tasks[t].committed /\ tasks[t].attempts = 1
    /\ \E i, j \in 1..Len(tasks[2].imgs) :
          /\ i # j
          /\ StoredAs(tasks[2].imgs[i]) = StoredAs(tasks[2].imgs[j])
    /\ \A i \in 1..Len(tasks[2].imgs) :
          rows[<<1, tasks[2].imgs[i][2],
                 unpackHash(HashBytes(1, tasks[2].imgs[i][2]))>>] = 1


\* ---------------------------------------------------------------- query
\* The (key, frame) pairs of a printed match list.
PairsOf(ms) == {<<x[1], x[2]>> : x \in ms}

\* C14: a lookup made with the four words of a descriptor prints exactly
\* the stored (key, frame) pairs whose four words all equal them, each
\* once: the pair a store run committed for the same picture is among
\* them, and no pair that differs in any word is.
C14_RoundTrip ==
    m = query =>
        \A k \in 1..Len(out) :
            LET img == out[k][1]
                w   == unpackHash(HashBytes(paths[img[1]], img[2]))
            IN  /\ out[k][2] = w
                /\ PairsOf(out[k][3]) =
                      {<<r[1], r[2]>> : r \in {x \in AllRows :
                            rows[x] > 0 /\ \A i \in 1..4 : x[3][i] = w[i]}}
                /\ \A x \in out[k][3] : x[3] = 1
                /\ rows[<<paths[img[1]], img[2], w>>] > 0 =>
                      <<paths[img[1]], img[2]>> \in PairsOf(out[k][3])

\* C14 witness: the query run that follows a store run has printed, for a
\* picture the store run committed, a match list that holds the picture's
\* own pair, while the table also holds a row with other words.
C14_Witness ==
    /\ runs = <<store, query>>
    /\ \E k \in 1..Len(out) :
          /\ <<paths[out[k][1][1]], out[k][1][2]>> \in PairsOf(out[k][3])
          /\ \E r \in AllRows : rows[r] > 0 /\ r[3] # out[k][2]


\* ----------------------------------------------------------------- show
\* C15: in show mode every descriptor a worker hands over is printed as
\* one (path, fingerprint) line at the end of the output, so the lines are
\* the descriptors received, in arrival order; nothing else is printed,
\* and nothing is done on the store.
C15_ShowPrintsInOrder ==
    [][m = show =>
        /\ \A w \in Procs :
              (wpc[w] = "send" /\ wpc'[w] = "recv") =>
                  /\ Len(out') = Len(out) + 1
                  /\ SubSeq(out', 1, Len(out)) = out
                  /\ out'[Len(out')] =
                        <<wimg[w], unpackHash(HashBytes(paths[wimg[w][1]],
                                                        wimg[w][2]))>>
        /\ out' # out => \E w \in Procs : wpc[w] = "send" /\ wpc'[w] = "recv"
        /\ UNCHANGED <<storeVars, faults, lookup>>
        /\ tasks = <<>> /\ lock = 0
      ]_vars

\* C15 witness: a show run has returned after printing the two images of
\* one directory, the first frame first.
C15_Witness ==
    /\ m = show
    /\ opc = "returned"
    /\ Len(out) = 2
    /\ out[1][1] = <<1, 1>>
    /\ out[2][1] = <<1, 2>>


\* ------------------------------------------------------------- ownership
\* Number of positions of sequence q that hold image img.
Occ(q, img) == Cardinality({i \in 1..Len(q) : q[i] = img})

\* Number of places of the first n commit tasks that hold image img.
RECURSIVE OccTasks(_, _)
OccTasks(n, img) ==
    IF n = 0 THEN 0 ELSE Occ(tasks[n].imgs, img) + OccTasks(n - 1, img)

\* Number of holders of the descriptor of image img past its scanner: the
\* workers, the store sink's accumulator (until the sink hands it to the
\* last commit task and returns), the commit tasks, the lookup started for
\* it, the show sink's printed lines.
Holders(img) ==
      Cardinality({w \in Procs : wimg[w] = img})
    + (IF sinkpc = "done" THEN 0 ELSE Occ(imgs, img))
    + OccTasks(Len(tasks), img)
    + (IF lookup[img] # "none" THEN 1 ELSE 0)
    + (IF m = show THEN Cardinality({k \in 1..Len(out) : out[k][1] = img})
       ELSE 0)

\* Scanner p has returned without emitting: every directory of a run holds
\* an image, so p failed on its directory (phash.go:52-75).
Failed(p) ==
    /\ spc[p] = "done"
    /\ \A i \in 1..MaxFiles : Holders(<<p, i>>) = 0

\* Every stage of the run has drained: the sink has returned, every image
\* emitted was consumed and every sink sub-task has finished.
Drained ==
    /\ sinkpc = "done"
    /\ \A w \in Procs : wimg[w] = Nil
    /\ \A t \in DOMAIN tasks : tasks[t].pc = "done"
    /\ \A img \in Images : lookup[img] # "running"

\* C16: when one scanner fails on its directory and no store operation
\* fails, that scanner emits nothing and returns, the scanners of the other
\* paths still emit every image of their directories, and the run ends by
\* a normal return with every stage drained.
C16_DirFailureContained ==
    \A p \in Paths :
        (Failed(p) /\ faults = 0) =>
            /\ todo[p] = 0
            /\ halt = "none"
            /\ \A q \in Paths :
                  (q # p /\ spc[q] = "done" /\ ~ Failed(q)) =>
                      \A i \in 1..nfiles[paths[q]] : Holders(<<q, i>>) = 1
            /\ opc = "returned" => Drained

\* C19: every descriptor a scanner sends is taken by exactly one worker,
\* and from there by exactly one sink consumer (one batch and so one commit
\* task, one lookup, one printed line): in every state each descriptor has
\* at most one holder, and the descriptors that have one are exactly those
\* the scanners have sent so far, none duplicated and none lost.
C19_SingleOwner ==
    \A p \in Paths :
        LET sent == nfiles[paths[p]] - todo[p]
        IN  IF spc[p] = "done" /\ todo[p] = 0 /\ Holders(<<p, 1>>) = 0
            THEN \A i \in 1..MaxFiles : Holders(<<p, i>>) = 0
            ELSE \A i \in 1..MaxFiles :
                    Holders(<<p, i>>) = IF i <= sent THEN 1 ELSE 0

\* C19 witness: a store run in which one descriptor is with a worker, one
\* in the accumulator and one in a commit task.
C19_Witness ==
    /\ m = store
    /\ \E w \in Procs : wimg[w] # Nil
    /\ Len(imgs) = 1
    /\ Len(tasks) = 1
    /\ Len(tasks[1].imgs) = 1


\* ------------------------------------------------------------- retries
\* C20: every attempt of a batch commit, retries included, inserts the
\* tuples of the first attempt: the image whose hash commitFrames reads
\* next has not had its hash closed by an earlier attempt, no read of a
\* closed hash ends the process, and every row inserted or committed
\* carries the words of its picture's hash.
C20_NoReadAfterClose ==
    /\ halt # "closedMat"
    /\ \A t \in DOMAIN tasks :
          /\ (tasks[t].pc = "exec" /\ tasks[t].idx <= Len(tasks[t].imgs)) =>
                tasks[t].imgs[tasks[t].idx] \notin hashClosed
          /\ \A r \in tasks[t].pending :
                r[3] = unpackHash(HashBytes(r[1], r[2]))
    /\ \A r \in AllRows :
          rows[r] > 0 => r[3] = unpackHash(HashBytes(r[1], r[2]))


\* ------------------------------------------------------------- file names
\* The dash of a name of the form <key>-<digits>.jpg: the name ends in
\* ".jpg", and one or more digits and nothing else stand between the dash
\* and the ".jpg".
FormDash(n) ==
    {k \in 1..(Len(n) - 2) :
        /\ n[Len(n)] = ".jpg"
        /\ n[k] = "-"
        /\ \A i \in (k + 1)..(Len(n) - 1) : n[i] \in Digits}

\* The descriptor of an entry named n of that form: key d1/<key>, frame the
\* number <digits> denotes.
FormDescriptor(n) ==
    LET k == CHOOSE x \in FormDash(n) : TRUE
    IN  [key   |-> <<"d1", "/">> \o SubSeq(n, 1, k - 1),
         frame |-> Atoi(SubSeq(n, k + 1, Len(n) - 1))]

\* C17: without a key file, an entry whose name has the form
\* <key>-<digits>.jpg, with a key, and whose image decodes adds exactly one
\* descriptor, with key d1/<key> and the frame the digits denote; an entry
\* whose name has not that form adds none; and d1 with img-1.jpg,
\* img-2.jpg and note.txt gives the descriptors (d1/img, 1), (d1/img, 2).
C17_NamePattern ==
    [][/\ (keyFile = <<>> /\ visited' = visited + 1) =>
            LET f == listing[visited + 1]
            IN  IF FormDash(f.name) = {}
                THEN emitted' = emitted
                ELSE (f.decodes /\ 1 \notin FormDash(f.name)) =>
                        emitted' = Append(emitted, FormDescriptor(f.name))
       /\ (keyFile = <<>> /\ listing = ScenarioA /\ gpc' = "done"
           /\ visited' = Len(listing)) =>
            emitted' = << [key |-> <<"d1", "/", "a">>, frame |-> 1],
                          [key |-> <<"d1", "/", "a">>, frame |-> 2] >>
      ]_vars

\* --------------------------------------------------------------- key file
\* White space of a key file.
IsSpace(c) == c \in {" ", "\n"}

RECURSIVE TrimLeft(_)
TrimLeft(k) ==
    IF k # <<>> /\ IsSpace(k[1]) THEN TrimLeft(Tail(k)) ELSE k

RECURSIVE TrimRight(_)
TrimRight(k) ==
    IF k # <<>> /\ IsSpace(k[Len(k)])
    THEN TrimRight(SubSeq(k, 1, Len(k) - 1)) ELSE k

\* The content with the surrounding white space removed.
TrimSpace(k) == TrimRight(TrimLeft(k))

\* C18: with a readable key file, every descriptor of the directory has as
\* its key the content of the key file with the surrounding white space
\* trimmed, whatever the file's name; a key file that is empty after
\* trimming gives no descriptor, so no key is empty or white space only.
C18_TrimmedKey ==
    (keyFile # <<>> /\ keyFile[1] = "content") =>
        \A i \in 1..Len(emitted) :
            /\ emitted[i].key = TrimSpace(keyFile[2])
            /\ emitted[i].key # <<>>
            /\ \E j \in 1..Len(emitted[i].key) : ~ IsSpace(emitted[i].key[j])

====
